---- MODULE Spec2Model ----
(***************************************************************************)
(* Model of pagefind_web/src/lib.rs: the SearchIndex object behind a raw   *)
(* pointer and its four exported entry points init_pagefind,               *)
(* load_index_chunk, request_indexes and search.                           *)
(*                                                                         *)
(* Strings that the code splits, compares or formats are sequences of      *)
(* one-character strings, so that split(' '), the byte-lexicographic       *)
(* comparison of &str, format!() and join() are modelled by what they do.  *)
(***************************************************************************)
EXTENDS Integers, Sequences, FiniteSets, TLC

VARIABLES
    heap,               \* allocation state of the boxed SearchIndex
    generator_version,  \* Option<String>: <<>> is None, <<v>> is Some(v)
    pages,              \* Vec<String>
    chunks,             \* Vec<IndexChunk>
    stops,              \* Vec<String>
    words,              \* HashMap<String, Vec<PageWord>>
    last,               \* the last call made across the boundary and what it returned
    loaded,             \* history: the chunk payloads decoded successfully, in call order
    meta,               \* history: the metadata payload the last init_pagefind was given
    preFail             \* history: words at entry of the load_index_chunk that failed

vars == <<heap, generator_version, pages, chunks, stops, words, last, loaded, meta, preFail>>

index == <<generator_version, pages, chunks, stops, words>>

----------------------------------------------------------------------------
(* Bounds *)

MaxQueryLen == 4        \* longest query string, in characters
MaxLoads == 2           \* most successful load_index_chunk calls on one index

----------------------------------------------------------------------------
(* Characters and strings *)

Space == " "

\* The characters queries are made of.
QueryChars == {"a", "s", Space}

\* The byte of a character (UTF-8, all ASCII here).
Byte(c) ==
    CASE c = " " -> 32
      [] c = "," -> 44
      [] c = "0" -> 48
      [] c = "1" -> 49
      [] c = "2" -> 50
      [] c = "3" -> 51
      [] c = "4" -> 52
      [] c = "5" -> 53
      [] c = "6" -> 54
      [] c = "7" -> 55
      [] c = "8" -> 56
      [] c = "9" -> 57
      [] c = "@" -> 64
      [] c = "a" -> 97
      [] c = "h" -> 104
      [] c = "p" -> 112
      [] c = "s" -> 115
      [] OTHER -> 127

\* x <= y for &str: byte-lexicographic, a proper prefix is smaller.
RECURSIVE StrLe(_, _)
StrLe(x, y) ==
    IF x = <<>> THEN TRUE
    ELSE IF y = <<>> THEN FALSE
    ELSE IF Byte(Head(x)) < Byte(Head(y)) THEN TRUE
    ELSE IF Byte(Head(x)) > Byte(Head(y)) THEN FALSE
    ELSE StrLe(Tail(x), Tail(y))

\* str::split(' '): one piece per separator plus one; empty pieces are kept.
RECURSIVE Split(_)
Split(q) ==
    IF \A i \in 1..Len(q) : q[i] # Space THEN <<q>>
    ELSE LET i == CHOOSE k \in 1..Len(q) :
                      q[k] = Space /\ \A j \in 1..(k - 1) : q[j] # Space
         IN  <<SubSeq(q, 1, i - 1)>> \o Split(SubSeq(q, i + 1, Len(q)))

\* [String]::join(sep)
RECURSIVE Join(_, _)
Join(ss, sep) ==
    IF ss = <<>> THEN <<>>
    ELSE IF Len(ss) = 1 THEN ss[1]
    ELSE ss[1] \o sep \o Join(Tail(ss), sep)

DigitChar == <<"0", "1", "2", "3", "4", "5", "6", "7", "8", "9">>

\* u32::to_string(): base 10, no leading zeros.
RECURSIVE to_string(_)
to_string(n) ==
    IF n < 10 THEN <<DigitChar[n + 1]>>
    ELSE to_string(n \div 10) \o <<DigitChar[(n % 10) + 1]>>

\* Iterator::flatten().collect() over a sequence of sequences.
RECURSIVE Flatten(_)
Flatten(ss) == IF ss = <<>> THEN <<>> ELSE Head(ss) \o Flatten(Tail(ss))

\* Mutant: the elements are yielded from the largest down.
RECURSIVE Ascending_Descending(_)
Ascending_Descending(S) ==
    IF S = {} THEN <<>>
    ELSE LET m == CHOOSE x \in S : \A y \in S : y <= x
         IN  <<m>> \o Ascending_Descending(S \ {m})

\* The elements of a finite set of numbers in ascending order (BitSet::iter).
RECURSIVE Ascending(_)
Ascending(S) ==
    IF S = {} THEN <<>>
    ELSE LET m == CHOOSE x \in S : \A y \in S : x <= y
         IN  <<m>> \o Ascending(S \ {m})

Range(f) == {f[i] : i \in DOMAIN f}

----------------------------------------------------------------------------
(* Payloads handed in by the caller *)

web_version == "0.2.0"

ChunkDir1 ==    \* ranges that do not overlap: [a, aa] and [s, sa]
    << [from |-> <<"a">>, to |-> <<"a", "a">>, hash |-> <<"h", "1">>],
       [from |-> <<"s">>, to |-> <<"s", "a">>, hash |-> <<"h", "2">>] >>

ChunkDir2 ==    \* ranges that overlap: [a, s] and [aa, ss]
    << [from |-> <<"a">>, to |-> <<"s">>, hash |-> <<"h", "1">>],
       [from |-> <<"a", "a">>, to |-> <<"s", "s">>, hash |-> <<"h", "2">>] >>

ChunkDir3 ==    \* the first range starts at the empty string: ["", aa] and [s, sa]
    << [from |-> <<>>, to |-> <<"a", "a">>, hash |-> <<"h", "1">>],
       [from |-> <<"s">>, to |-> <<"s", "a">>, hash |-> <<"h", "2">>] >>

PageIds == << <<"p", "0">>, <<"p", "1">>, <<"p", "2">>, <<"p", "3">>, <<"p", "4">> >>

MetaOf(ok, gv, dir) ==
    [ok |-> ok, generator_version |-> gv, pages |-> PageIds, chunks |-> dir,
     stops |-> << <<"a", "s">> >>]

\* The metadata payloads init_pagefind is called with; the last one is malformed.
MetadataPayloads ==
    { MetaOf(TRUE, <<>>, ChunkDir1),
      MetaOf(TRUE, <<web_version>>, ChunkDir1),
      MetaOf(TRUE, <<"0.1.0">>, ChunkDir1),
      MetaOf(TRUE, <<web_version>>, ChunkDir2),
      MetaOf(FALSE, <<>>, <<>>) }

\* Every metadata payload, whatever ranges its directory holds.
AnyMetadataPayloads ==
    MetadataPayloads \cup { MetaOf(TRUE, <<web_version>>, ChunkDir3) }

PW(p, l) == [page |-> p, locs |-> l]

\* The chunk payloads load_index_chunk is called with: the entries the decoder
\* reads, in order, and whether the payload is well-formed after them.
ChunkPayloads ==
    << [entries |-> << [term |-> <<"a">>,
                        postings |-> <<PW(1, <<1, 2>>), PW(2, <<4>>), PW(3, <<6>>)>>] >>,
        ok |-> TRUE],
       [entries |-> << [term |-> <<"s">>,
                        postings |-> <<PW(2, <<3>>), PW(3, <<40>>), PW(4, <<8>>)>>] >>,
        ok |-> TRUE],
       [entries |-> << [term |-> <<"a", "a">>,
                        postings |-> <<PW(0, <<5>>), PW(0, <<9>>)>>],
                       [term |-> <<"a">>,
                        postings |-> <<PW(4, <<7>>)>>] >>,
        ok |-> TRUE],
       [entries |-> << [term |-> <<"s">>,
                        postings |-> <<PW(0, <<2>>)>>] >>,
        ok |-> FALSE],
       [entries |-> << [term |-> <<"s">>,
                        postings |-> <<PW(1, <<3>>), PW(7, <<1>>)>>] >>,
        ok |-> TRUE],
       [entries |-> << [term |-> <<>>,
                        postings |-> <<PW(1, <<0>>)>>] >>,
        ok |-> TRUE] >>

\* Every chunk payload, whatever terms and page indexes it holds.
AnyChunkIds == DOMAIN ChunkPayloads

\* The chunk payloads written for the words and pages of PageIds: every term
\* of theirs is a word and every page index an index into pages.
ChunkIds ==
    {c \in AnyChunkIds :
        \A i \in DOMAIN ChunkPayloads[c].entries :
            /\ ChunkPayloads[c].entries[i].term # <<>>
            /\ \A k \in DOMAIN ChunkPayloads[c].entries[i].postings :
                  ChunkPayloads[c].entries[i].postings[k].page < Len(PageIds)}

RECURSIVE SeqsUpTo(_, _)
SeqsUpTo(S, n) ==
    IF n = 0 THEN {<<>>}
    ELSE LET shorter == SeqsUpTo(S, n - 1)
         IN  shorter \cup {Append(q, c) : q \in shorter, c \in S}

\* The query strings the caller passes.
Queries == SeqsUpTo(QueryChars, MaxQueryLen)

----------------------------------------------------------------------------
(* Collaborators *)

IsVowel(c) == c \in {"a", "e", "i", "o", "u", "y"}

\* Stemmer::create(Algorithm::English).stem(term), on words over the letters
\* a and s: a word of one or two letters is left alone; of the suffix rules
\* only step 1a applies, which deletes a final s (not ss, not us) when a vowel
\* occurs before the letter that precedes it.
stem(term) ==
    LET n == Len(term) IN
    IF /\ n > 2
       /\ term[n] = "s"
       /\ term[n - 1] \notin {"s", "u"}
       /\ \E i \in 1..(n - 2) : IsVowel(term[i])
    THEN SubSeq(term, 1, n - 1)
    ELSE term

\* SearchIndex::decode_metadata: fills pages, stops, chunks and
\* generator_version of the empty index, or fails.
decode_metadata(si, payload) ==
    IF payload.ok
    THEN [ok |-> TRUE,
          si |-> [si EXCEPT !.generator_version = payload.generator_version,
                            !.pages = payload.pages,
                            !.chunks = payload.chunks,
                            !.stops = payload.stops]]
    ELSE [ok |-> FALSE, si |-> si]

\* One decoded entry merged into words: the postings are appended to the
\* term's sequence.
MergeEntry(W, e) ==
    [t \in (DOMAIN W) \cup {e.term} |->
        IF t = e.term
        THEN (IF t \in DOMAIN W THEN W[t] ELSE <<>>) \o e.postings
        ELSE W[t]]

RECURSIVE MergeEntries(_, _)
MergeEntries(W, es) ==
    IF es = <<>> THEN W ELSE MergeEntries(MergeEntry(W, Head(es)), Tail(es))

\* SearchIndex::decode_index_chunk: merges the entries read before the
\* payload ends or turns out malformed; what was merged is not rolled back.
decode_index_chunk(si, payload) ==
    [ok |-> payload.ok,
     si |-> [si EXCEPT !.words = MergeEntries(si.words, payload.entries)]]

Max(S) == CHOOSE x \in S : \A y \in S : y <= x
Min(S) == CHOOSE x \in S : \A y \in S : x <= y

\* excerpt::calculate_excerpt: the lowest offset whose window of
\* excerpt_length words holds the most of the positions; 0 for none. The
\* count of a window changes only where a position enters it, so the lowest
\* best offset is 0 or the offset at which some position is the window's last.
calculate_excerpt(word_positions, excerpt_length) ==
    IF word_positions = <<>> THEN 0
    ELSE LET hits(o) == Cardinality({i \in DOMAIN word_positions :
                            /\ o <= word_positions[i]
                            /\ word_positions[i] < o + excerpt_length})
             offsets == {0} \cup {p - excerpt_length + 1 :
                                    p \in {q \in Range(word_positions) :
                                              q >= excerpt_length}}
             best == Max({hits(o) : o \in offsets})
         IN  Min({o \in offsets : hits(o) = best})

----------------------------------------------------------------------------
(* The exported entry points, as functions of the object behind the pointer *)

NullPtr == "null"
Ptr == "ptr"

VersionMismatch ==
    <<"E", "R", "R", "O", "R", ":", " ",
      "V", "e", "r", "s", "i", "o", "n", " ",
      "m", "i", "s", "m", "a", "t", "c", "h">>

EmptyIndex ==
    [generator_version |-> <<>>, pages |-> <<>>, chunks |-> <<>>,
     stops |-> <<>>, words |-> <<>>]

\* Mutant: on a decode error the index is boxed all the same and null returned.
init_pagefind_LeaksOnError(metadata_bytes) ==
    LET r == decode_metadata(EmptyIndex, metadata_bytes) IN
    IF r.ok
    THEN [ptr |-> Ptr, heap |-> "live", si |-> r.si]
    ELSE [ptr |-> NullPtr, heap |-> "live", si |-> r.si]

\* init_pagefind: the index is boxed and leaked to the caller when decode
\* succeeds; on failure the local value is dropped and null is returned.
init_pagefind(metadata_bytes) ==
    LET r == decode_metadata(EmptyIndex, metadata_bytes) IN
    IF r.ok
    THEN [ptr |-> Ptr, heap |-> "live", si |-> r.si]
    ELSE [ptr |-> NullPtr, heap |-> "none", si |-> EmptyIndex]

\* Mutant: the chunk is decoded into a fresh words map that replaces the old.
load_index_chunk_IntoFresh(si, chunk_bytes) ==
    LET r == decode_index_chunk([si EXCEPT !.words = <<>>], chunk_bytes) IN
    IF r.ok
    THEN [ptr |-> Ptr, heap |-> "live", si |-> r.si]
    ELSE [ptr |-> NullPtr, heap |-> "freed", si |-> r.si]

\* load_index_chunk: Box::from_raw takes the object; Ok hands it back with
\* Box::into_raw, Err returns null and the box is dropped at the end of scope.
load_index_chunk(si, chunk_bytes) ==
    LET r == decode_index_chunk(si, chunk_bytes) IN
    IF r.ok
    THEN [ptr |-> Ptr, heap |-> "live", si |-> r.si]
    ELSE [ptr |-> NullPtr, heap |-> "freed", si |-> r.si]

\* Mutant: the upper bound of a chunk's range is exclusive.
InChunk_ExclusiveTo(term, chunk) ==
    StrLe(chunk.from, term) /\ StrLe(term, chunk.to) /\ term # chunk.to

\* chunks.iter().find(|chunk| term >= &chunk.from && term <= &chunk.to)
InChunk(term, chunk) == StrLe(chunk.from, term) /\ StrLe(term, chunk.to)

FindChunk(dir, term) ==
    LET hits == {i \in DOMAIN dir : InChunk(term, dir[i])}
    IN  IF hits = {} THEN <<>> ELSE <<dir[Min(hits)]>>

\* The loop of request_indexes: the hash of the chunk found for each term.
RECURSIVE Indexes(_, _)
Indexes(si, terms) ==
    IF terms = <<>> THEN <<>>
    ELSE LET term_index == FindChunk(si.chunks, Head(terms))
         IN  (IF term_index # <<>> THEN <<term_index[1].hash>> ELSE <<>>)
                 \o Indexes(si, Tail(terms))

\* Mutant: a term that words already has an entry for is not routed.
request_indexes_SkipsLoaded(si, query) ==
    [o |-> Join(Indexes(si, SelectSeq(Split(query), LAMBDA t : t \notin DOMAIN si.words)),
                <<Space>>),
     heap |-> "live", si |-> si]

\* Mutant: a hash is pushed once, however many terms route to its chunk.
request_indexes_Dedup(si, query) ==
    LET all == Indexes(si, Split(query))
        keep == Ascending({i \in DOMAIN all : \A j \in 1..(i - 1) : all[j] # all[i]})
    IN  [o |-> Join([k \in DOMAIN keep |-> all[keep[k]]], <<Space>>),
         heap |-> "live", si |-> si]

\* request_indexes: Box::from_raw takes the object, Box::into_raw hands it
\* back before the joined hashes are returned.
request_indexes(si, query) ==
    [o |-> Join(Indexes(si, Split(query)), <<Space>>), heap |-> "live", si |-> si]

\* The stemmed terms of the query that words has an entry for.
FoundTerms(si, query) ==
    LET terms == Split(query)
        stems == [i \in DOMAIN terms |-> stem(terms[i])]
    IN  SelectSeq(stems, LAMBDA t : t \in DOMAIN si.words)

\* Mutant: the pages of the last term replace those of the terms before it.
IntersectAll_LastWins(maps) == maps[Len(maps)]

\* Mutant: the loop over the remaining maps is missing.
IntersectAll_FirstOnly(maps) == maps[1]

\* results: the first map intersected with each of the others.
RECURSIVE IntersectAll(_)
IntersectAll(maps) ==
    IF Len(maps) = 1 THEN maps[1]
    ELSE IntersectAll(<<maps[1] \cap maps[2]>> \o SubSeq(maps, 3, Len(maps)))

\* Mutant: only the first posting record found for the page gives its locs.
Segment_FirstRecordOnly(si, word_refs, page) ==
    LET hit == SelectSeq(word_refs, LAMBDA p : p.page = page)
        locs == IF hit = <<>> THEN <<>> ELSE hit[1].locs
        strs == [i \in DOMAIN locs |-> to_string(locs[i])]
    IN  si.pages[page + 1] \o <<"@">> \o to_string(calculate_excerpt(locs, 30))
            \o <<",">> \o to_string(30) \o <<"@">> \o Join(strs, <<",">>)

\* The segment search formats for one page of the intersection.
Segment(si, word_refs, page) ==
    LET hit == SelectSeq(word_refs, LAMBDA p : p.page = page)
        locs == Flatten([i \in DOMAIN hit |-> hit[i].locs])
        strs == [i \in DOMAIN locs |-> to_string(locs[i])]
    IN  si.pages[page + 1] \o <<"@">> \o to_string(calculate_excerpt(locs, 30))
            \o <<",">> \o to_string(30) \o <<"@">> \o Join(strs, <<",">>)

\* Mutant: an unset generator_version is taken for a mismatch.
VersionGate_UnsetMismatches(si) ==
    si.generator_version = <<>> \/ si.generator_version[1] # web_version

\* The version check at the head of search.
VersionGate(si) ==
    si.generator_version # <<>> /\ si.generator_version[1] # web_version

\* The string search computes, or the trap it ends in.
SearchResult(si, query) ==
    IF VersionGate(si)
    THEN [o |-> VersionMismatch, trapped |-> FALSE]
    ELSE
    LET found == FoundTerms(si, query)
        word_refs == Flatten([i \in DOMAIN found |-> si.words[found[i]]])
        maps == [i \in DOMAIN found |->
                    {si.words[found[i]][k].page : k \in DOMAIN si.words[found[i]]}]
    IN  IF maps = <<>>
        THEN [o |-> <<>>, trapped |-> FALSE]
        ELSE
        LET results == Ascending(IntersectAll(maps)) IN
        IF \E i \in DOMAIN results : results[i] >= Len(si.pages)
        THEN \* &search_index.pages[page] panics: the call traps
             [o |-> <<>>, trapped |-> TRUE]
        ELSE [o |-> Join([i \in DOMAIN results |-> Segment(si, word_refs, results[i])],
                         <<Space>>),
              trapped |-> FALSE]

\* Mutant: the postings looked up are taken out of the index.
search_DrainsWords(si, query) ==
    LET r == SearchResult(si, query)
    IN  [o |-> r.o, trapped |-> r.trapped, heap |-> "live",
         si |-> [si EXCEPT !.words = <<>>]]

\* search: Box::from_raw takes the object and every return path hands it back
\* with Box::into_raw; a trap leaves the memory allocated (the wasm build
\* aborts without unwinding).
search(si, query) ==
    LET r == SearchResult(si, query)
    IN  [o |-> r.o, trapped |-> r.trapped, heap |-> "live", si |-> si]

----------------------------------------------------------------------------
(* State machine: the caller drives one index through the boundary *)

\* The object behind the pointer.
search_index ==
    [generator_version |-> generator_version, pages |-> pages, chunks |-> chunks,
     stops |-> stops, words |-> words]

\* The object after a call.
Store(si) ==
    /\ generator_version' = si.generator_version
    /\ pages' = si.pages
    /\ chunks' = si.chunks
    /\ stops' = si.stops
    /\ words' = si.words

NoMeta == [ok |-> FALSE, generator_version |-> <<>>, pages |-> <<>>,
           chunks |-> <<>>, stops |-> <<>>]

Call(op, query, o, ptr, trapped) ==
    [op |-> op, query |-> query, o |-> o, ptr |-> ptr, trapped |-> trapped]

\* No call is in progress and the caller holds no result of one.
Idle == Call("none", <<>>, <<>>, NullPtr, FALSE)

Init ==
    /\ heap = "none"
    /\ generator_version = <<>>
    /\ pages = <<>>
    /\ chunks = <<>>
    /\ stops = <<>>
    /\ words = <<>>
    /\ last = Idle
    /\ loaded = <<>>
    /\ meta = NoMeta
    /\ preFail = <<>>

InitPagefind(metadata_bytes) ==
    /\ heap = "none"
    /\ last = Idle
    /\ LET r == init_pagefind(metadata_bytes) IN
        /\ heap' = r.heap
        /\ Store(r.si)
        /\ last' = Call("init_pagefind", <<>>, <<>>, r.ptr, FALSE)
        /\ meta' = metadata_bytes
    /\ UNCHANGED <<loaded, preFail>>

LoadIndexChunk(c) ==
    /\ heap = "live"
    /\ last = Idle
    /\ Len(loaded) < MaxLoads
    /\ LET r == load_index_chunk(search_index, ChunkPayloads[c]) IN
        /\ heap' = r.heap
        /\ Store(r.si)
        /\ last' = Call("load_index_chunk", <<>>, <<>>, r.ptr, FALSE)
        /\ loaded' = IF r.ptr = Ptr THEN Append(loaded, c) ELSE loaded
        /\ preFail' = IF r.ptr = Ptr THEN preFail ELSE words
    /\ UNCHANGED meta

RequestIndexes(query) ==
    /\ heap = "live"
    /\ last = Idle
    /\ LET r == request_indexes(search_index, query) IN
        /\ heap' = r.heap
        /\ Store(r.si)
        /\ last' = Call("request_indexes", query, r.o, Ptr, FALSE)
    /\ UNCHANGED <<loaded, meta, preFail>>

Search(query) ==
    /\ heap = "live"
    /\ last = Idle
    /\ LET r == search(search_index, query) IN
        /\ heap' = r.heap
        /\ Store(r.si)
        /\ last' = Call("search", query, r.o, Ptr, r.trapped)
    /\ UNCHANGED <<loaded, meta, preFail>>

\* A call on the pointer of a freed index: Box::from_raw on it is undefined
\* behaviour. The build may trap, or run the function on what the freed
\* memory still holds (the stale object).
SearchFreed(query) ==
    /\ heap = "freed"
    /\ last = Idle
    /\ \/ last' = Call("search", query, <<>>, Ptr, TRUE)
       \/ last' = Call("search", query, search(search_index, query).o, Ptr, FALSE)
    /\ UNCHANGED <<heap, generator_version, pages, chunks, stops, words,
                   loaded, meta, preFail>>

RequestIndexesFreed(query) ==
    /\ heap = "freed"
    /\ last = Idle
    /\ \/ last' = Call("request_indexes", query, <<>>, Ptr, TRUE)
       \/ last' = Call("request_indexes", query,
                       request_indexes(search_index, query).o, Ptr, FALSE)
    /\ UNCHANGED <<heap, generator_version, pages, chunks, stops, words,
                   loaded, meta, preFail>>

\* The exported functions are synchronous and the caller makes one call at a
\* time: it takes the value a call returned before it makes the next call.
Return ==
    /\ last # Idle
    /\ last' = Idle
    /\ UNCHANGED <<heap, generator_version, pages, chunks, stops, words,
                   loaded, meta, preFail>>

Next ==
    \/ \E m \in MetadataPayloads : InitPagefind(m)
    \/ \E c \in ChunkIds : LoadIndexChunk(c)
    \/ \E q \in Queries : RequestIndexes(q)
    \/ \E q \in Queries : Search(q)
    \/ \E q \in Queries : SearchFreed(q)
    \/ \E q \in Queries : RequestIndexesFreed(q)
    \/ Return

Spec == Init /\ [][Next]_vars

\* The same calls with metadata and chunk payloads of any content.
NextAnyPayload ==
    \/ \E m \in AnyMetadataPayloads : InitPagefind(m)
    \/ \E c \in AnyChunkIds : LoadIndexChunk(c)
    \/ \E q \in Queries : RequestIndexes(q)
    \/ \E q \in Queries : Search(q)
    \/ Return

SpecAnyPayload == Init /\ [][NextAnyPayload]_vars

----------------------------------------------------------------------------
(* Vocabulary of the properties *)

\* The numbers of S by rank: the k-th is the one with k - 1 smaller ones.
InOrder(S) ==
    [k \in 1..Cardinality(S) |->
        CHOOSE x \in S : Cardinality({y \in S : y < x}) = k - 1]

\* The pieces of s between occurrences of sep, by the positions of sep.
Pieces(s, sep) ==
    LET at == InOrder({i \in 1..Len(s) : s[i] = sep})
        cut == <<0>> \o at \o <<Len(s) + 1>>
    IN  [k \in 1..(Len(cut) - 1) |-> SubSeq(s, cut[k] + 1, cut[k + 1] - 1)]

\* x <= y in byte-lexicographic order, by the first position where they differ.
LexLe(x, y) ==
    \/ Len(x) <= Len(y) /\ \A i \in 1..Len(x) : x[i] = y[i]
    \/ \E k \in 1..Len(x) :
          /\ k <= Len(y)
          /\ \A i \in 1..(k - 1) : x[i] = y[i]
          /\ Byte(x[k]) < Byte(y[k])

\* The terms of the query of the last call, and their stems.
QueryTerms == Pieces(last.query, Space)
QueryStems == [i \in DOMAIN QueryTerms |-> stem(QueryTerms[i])]

\* The pages a term has at least one posting record for.
PostingPages(t) == {words[t][k].page : k \in DOMAIN words[t]}

\* The segments of a result string and the page identifiers they start with.
SegmentsOf(o) == IF o = <<>> THEN <<>> ELSE Pieces(o, Space)
ResultPageIds(o) == {Pieces(seg, "@")[1] : seg \in Range(SegmentsOf(o))}

\* The last call was made on a live index and has returned.
Returned(op) == heap = "live" /\ last.op = op /\ ~last.trapped

HandleBased == {"load_index_chunk", "request_indexes", "search"}

----------------------------------------------------------------------------
(* Properties *)

\* C1: once init_pagefind has succeeded, every handle-based call hands the
\* index back: the object is never freed and no handle-based call returns the
\* null pointer. Stated as the claim makes it; load_index_chunk breaks it on
\* its Err path, where the box is dropped and null is returned.
C1_IndexHandedBackOnEveryPath ==
    meta.ok =>
        /\ heap = "live"
        /\ last.op \in HandleBased => last.ptr = Ptr

\* C2: a search whose query has a term (after stemming) absent from words
\* returns the empty string. Stated as the claim makes it; search skips absent
\* terms and intersects the maps of the others.
C2_AbsentTermGivesEmptyResult ==
    (/\ Returned("search")
     /\ ~VersionGate(search_index)
     /\ \E i \in DOMAIN QueryStems : QueryStems[i] \notin DOMAIN words)
        => last.o = <<>>

\* C3: search returns exactly "ERROR: Version mismatch" if and only if
\* generator_version is set and differs from the runtime version, whatever the
\* query and the words mapping are.
C3_VersionGate ==
    Returned("search") =>
        (last.o = VersionMismatch
            <=> (generator_version # <<>> /\ generator_version[1] # web_version))

C3_Witness ==
    /\ Returned("search")
    /\ last.o = VersionMismatch
    /\ last.query = <<"a">>
    /\ <<"a">> \in DOMAIN words

\* C4: when every term of the query has postings, the pages that get a
\* segment in the result are exactly the pages every term has a posting
\* record for.
C4_ConjunctiveIntersection ==
    (/\ Returned("search")
     /\ ~VersionGate(search_index)
     /\ \A i \in DOMAIN QueryStems : QueryStems[i] \in DOMAIN words)
        => ResultPageIds(last.o) =
              {pages[p + 1] : p \in {n \in 0..(Len(pages) - 1) :
                    \A i \in DOMAIN QueryStems : n \in PostingPages(QueryStems[i])}}

C4_Witness ==
    /\ Returned("search")
    /\ last.query = <<"a", Space, "s">>
    /\ {<<"a">>, <<"s">>} \subseteq DOMAIN words
    /\ PostingPages(<<"a">>) = {1, 2, 3}
    /\ PostingPages(<<"s">>) = {2, 3, 4}
    /\ ResultPageIds(last.o) = {pages[3], pages[4]}

\* C5: after a load_index_chunk that failed on an index with chunks merged
\* before, a search for terms those chunks cover returns what it returned
\* before the failed call. Stated as the claim makes it; the failed call has
\* freed the index (C1), so the search runs on a dangling pointer.
C5_FailedLoadKeepsResults ==
    (/\ heap = "freed"
     /\ loaded # <<>>
     /\ last.op = "search"
     /\ \A i \in DOMAIN QueryStems : QueryStems[i] \in DOMAIN preFail)
        => /\ ~last.trapped
           /\ last.o = SearchResult([search_index EXCEPT !.words = preFail],
                                    last.query).o

\* A term lies in a chunk's range, bounds included.
Within(c, t) == LexLe(c.from, t) /\ LexLe(t, c.to)

\* No string lies in the ranges of two entries of the directory.
NonOverlapping(dir) ==
    \A i, j \in DOMAIN dir :
        i < j => ~(/\ LexLe(dir[i].from, dir[i].to)
                   /\ LexLe(dir[j].from, dir[j].to)
                   /\ LexLe(dir[i].from, dir[j].to)
                   /\ LexLe(dir[j].from, dir[i].to))

\* C6: with a directory whose ranges do not overlap, request_indexes on a
\* single-term query returns the hash of a chunk exactly when the term lies
\* in that chunk's range, bounds included, and the empty string when it lies
\* in no range.
C6_ChunkRoutingCoverage ==
    (/\ Returned("request_indexes")
     /\ Space \notin Range(last.query)
     /\ NonOverlapping(chunks))
        => /\ \A i \in DOMAIN chunks :
                 last.o = chunks[i].hash <=> Within(chunks[i], last.query)
           /\ (\A i \in DOMAIN chunks : ~Within(chunks[i], last.query))
                 => last.o = <<>>

C6_Witness ==
    /\ Returned("request_indexes")
    /\ NonOverlapping(chunks)
    /\ last.query = <<"a", "a">>
    /\ \E i \in DOMAIN chunks : chunks[i].to = last.query /\ last.o = chunks[i].hash

\* The result of the request_indexes that has returned is the routing of its
\* query over the directory init_pagefind decoded.
RoutedOverInitialDirectory ==
    Returned("request_indexes") =>
        last.o = Join(Indexes([chunks |-> meta.chunks], QueryTerms), <<Space>>)

\* C7: request_indexes leaves the index as it was, and its result is the
\* routing of the query over the directory init_pagefind decoded, whatever
\* has been loaded or asked since. (The second conjunct is read in the state
\* a step starts from; every state a call has returned to has a Return step.)
C7_IdempotentRouting ==
    [][/\ (heap = "live" /\ last'.op = "request_indexes") => index' = index
       /\ RoutedOverInitialDirectory]_vars

C7_Witness ==
    /\ Returned("request_indexes")
    /\ Len(loaded) = MaxLoads
    /\ last.query \in DOMAIN words
    /\ last.o # <<>>

\* The terms a chunk payload has entries for.
TermsOfChunk(c) ==
    {ChunkPayloads[c].entries[k].term : k \in DOMAIN ChunkPayloads[c].entries}

NoRepeat(ld) == \A i, j \in DOMAIN ld : i < j => ld[i] # ld[j]

DisjointTerms(ld) ==
    \A i, j \in DOMAIN ld : i < j => TermsOfChunk(ld[i]) \cap TermsOfChunk(ld[j]) = {}

\* The index after init_pagefind and the chunks ids loaded in that order.
RECURSIVE LoadAll(_, _)
LoadAll(si, ids) ==
    IF ids = <<>> THEN si
    ELSE LoadAll(load_index_chunk(si, ChunkPayloads[Head(ids)]).si, Tail(ids))

CanonicalIndex == LoadAll(init_pagefind(meta).si, InOrder(Range(loaded)))

SameStringIfAskedAgain ==
    Returned("search") => SearchResult(search_index, last.query).o = last.o

\* C9: search leaves pages, chunks, stops, words and generator_version as
\* they were on every return path, so the same query asked again of the index
\* it handed back returns the same string. (The second conjunct is read in the
\* state a step starts from; every state a call has returned to has a Return
\* step.)
C9_SearchHasNoSideEffects ==
    [][/\ (heap = "live" /\ last'.op = "search") => index' = index
       /\ SameStringIfAskedAgain]_vars

C9_Witness ==
    /\ Returned("search")
    /\ last.o \notin {<<>>, VersionMismatch}
    /\ words # <<>>

\* C10: request_indexes returns, joined by single spaces and in the order of
\* the terms, one hash for every term of the query that lies in some chunk's
\* range, each the hash of a chunk whose range holds that term; a hash is
\* repeated when several terms route to it.
C10_OneHashPerRoutedTerm ==
    Returned("request_indexes") =>
        LET routed == SelectSeq(QueryTerms,
                        LAMBDA t : \E i \in DOMAIN chunks : Within(chunks[i], t))
            hashes == IF last.o = <<>> THEN <<>> ELSE Pieces(last.o, Space)
        IN  /\ Len(hashes) = Len(routed)
            /\ \A k \in DOMAIN routed :
                  \E i \in DOMAIN chunks :
                      Within(chunks[i], routed[k]) /\ hashes[k] = chunks[i].hash

C10_Witness ==
    /\ Returned("request_indexes")
    /\ last.query = <<"a", Space, "a">>
    /\ last.o = <<"h", "1", Space, "h", "1">>

\* C11: init_pagefind returns null exactly when decode_metadata fails; then
\* no index is allocated and none is reachable; otherwise one live index is
\* handed to the caller, filled from the metadata and with no words.
C11_InitAllOrNothing ==
    last.op = "init_pagefind" =>
        /\ last.ptr = NullPtr <=> ~decode_metadata(EmptyIndex, meta).ok
        /\ last.ptr = NullPtr => (heap = "none" /\ search_index = EmptyIndex)
        /\ last.ptr = Ptr =>
              /\ heap = "live"
              /\ words = <<>>
              /\ <<generator_version, pages, chunks, stops>>
                    = <<meta.generator_version, meta.pages, meta.chunks, meta.stops>>

C11_Witness ==
    /\ last.op = "init_pagefind"
    /\ last.ptr = NullPtr
    /\ ~meta.ok
    /\ heap = "none"

\* C12: every page index stored in words is an index into pages, and no
\* search traps, whatever chunk payloads were loaded. Stated as the claim
\* makes it; a payload with a page index past the end of pages is merged as it
\* is, and search then indexes pages with it.
C12_PageIndexesValid ==
    heap = "live" =>
        /\ \A t \in DOMAIN words :
              \A k \in DOMAIN words[t] : words[t][k].page < Len(pages)
        /\ last.op = "search" => ~last.trapped

\* The number a string of decimal digits writes.
RECURSIVE ToNat(_)
ToNat(ds) ==
    IF ds = <<>> THEN 0
    ELSE 10 * ToNat(SubSeq(ds, 1, Len(ds) - 1)) + (Byte(ds[Len(ds)]) - Byte("0"))

\* The three fields of a segment, and the location list its last field writes.
FieldsOf(seg) == Pieces(seg, "@")
SegmentLocs(seg) ==
    LET field == FieldsOf(seg)[3]
        strs == IF field = <<>> THEN <<>> ELSE Pieces(field, ",")
    IN  [i \in DOMAIN strs |-> ToNat(strs[i])]

\* C13: the location list of every segment of a search result (the list
\* handed to calculate_excerpt) is in ascending order. Stated as the claim
\* makes it; search concatenates the records' locs in query-term order and
\* does not sort them.
C13_LocationsAscending ==
    (Returned("search") /\ ~VersionGate(search_index))
        => \A seg \in Range(SegmentsOf(last.o)) :
              LET locs == SegmentLocs(seg)
              IN  \A i, j \in DOMAIN locs : i < j => locs[i] <= locs[j]

\* The query's stems that words has an entry for, in query order, and the
\* pages every one of them has a posting record for.
StemsWithPostings == SelectSeq(QueryStems, LAMBDA t : t \in DOMAIN words)
SurvivingPages ==
    IF StemsWithPostings = <<>> THEN {}
    ELSE {p \in 0..(Len(pages) - 1) :
            \A i \in DOMAIN StemsWithPostings : p \in PostingPages(StemsWithPostings[i])}

\* The locs of the posting records for page p, term by term in query order
\* and record by record within a term.
LocsInQueryOrder(p) ==
    LET recs == Flatten([i \in DOMAIN StemsWithPostings |->
                    SelectSeq(words[StemsWithPostings[i]], LAMBDA r : r.page = p)])
    IN  Flatten([k \in DOMAIN recs |-> recs[k].locs])

IsNumber(str) == str # <<>> /\ \A i \in DOMAIN str : str[i] \in Range(DigitChar)

\* C14: the result of search has exactly one segment for every page that
\* survives the intersection and none for any other; a segment reads
\* page_identifier@excerpt_start,30@locations, where page_identifier is
\* pages[page] and locations are the locs of the page's posting records in
\* query-term order, then record order, neither sorted nor deduplicated;
\* segments are joined by single spaces and no surviving page gives the
\* empty string.
C14_OneSegmentPerSurvivingPage ==
    (Returned("search") /\ ~VersionGate(search_index)) =>
        LET segs == SegmentsOf(last.o) IN
        /\ Len(segs) = Cardinality(SurvivingPages)
        /\ \A i \in DOMAIN segs :
              /\ Len(FieldsOf(segs[i])) = 3
              /\ LET window == Pieces(FieldsOf(segs[i])[2], ",")
                 IN  Len(window) = 2 /\ IsNumber(window[1]) /\ window[2] = <<"3", "0">>
        /\ \A p \in SurvivingPages :
              \E i \in DOMAIN segs :
                  /\ FieldsOf(segs[i])[1] = pages[p + 1]
                  /\ SegmentLocs(segs[i]) = LocsInQueryOrder(p)
                  /\ \A j \in DOMAIN segs :
                        FieldsOf(segs[j])[1] = pages[p + 1] => j = i

C14_Witness ==
    /\ Returned("search")
    /\ last.query = <<"a", Space, "s">>
    /\ SurvivingPages = {2, 3}
    /\ \E i \in DOMAIN SegmentsOf(last.o) : SegmentLocs(SegmentsOf(last.o)[i]) = <<4, 3>>

\* The query with its terms, the maximal runs of characters other than the
\* separator, separated by single spaces.
SingleSpaced(q) ==
    LET runs == {<<i, j>> \in (1..Len(q)) \X (1..Len(q)) :
                    /\ i <= j
                    /\ \A k \in i..j : q[k] # Space
                    /\ i = 1 \/ q[i - 1] = Space
                    /\ j = Len(q) \/ q[j + 1] = Space}
        starts == InOrder({r[1] : r \in runs})
        EndOf(i) == CHOOSE j \in 1..Len(q) : <<i, j>> \in runs
    IN  Join([n \in DOMAIN starts |-> SubSeq(q, starts[n], EndOf(starts[n]))], <<Space>>)

\* C15: leading, trailing and repeated spaces of a query produce no term:
\* request_indexes and search return for a query what they return for its
\* terms separated by single spaces, in every state of the index.
C15_ExtraSpacesIgnored ==
    /\ Returned("request_indexes") =>
          last.o = request_indexes(search_index, SingleSpaced(last.query)).o
    /\ Returned("search") =>
          last.o = search(search_index, SingleSpaced(last.query)).o

\* The index in pages of a page identifier.
PageIndexOf(id) == CHOOSE p \in 0..(Len(pages) - 1) : pages[p + 1] = id

\* C16: the segments of a search result are in strictly ascending order of
\* page index, and the pages they name are exactly the surviving pages, each
\* named once, also when a posting list has several records for a page or the
\* query repeats a term.
C16_SegmentsAscendingByPage ==
    (Returned("search") /\ ~VersionGate(search_index)) =>
        LET segs == SegmentsOf(last.o)
            at == [i \in DOMAIN segs |-> PageIndexOf(FieldsOf(segs[i])[1])]
        IN  /\ \A i \in DOMAIN segs : FieldsOf(segs[i])[1] \in Range(pages)
            /\ \A i, j \in DOMAIN segs : i < j => at[i] < at[j]
            /\ Range(at) = SurvivingPages

C16_Witness ==
    /\ Returned("search")
    /\ ~VersionGate(search_index)
    /\ QueryTerms = << <<"a">>, <<"a">> >>
    /\ <<"a">> \in DOMAIN words
    /\ \E k \in DOMAIN words[<<"a">>] :
          words[<<"a">>][k].page = 4
    /\ Len(SegmentsOf(last.o)) = 4

\* The terms with those at positions i and j exchanged, and with a copy of
\* the one at position i added at the end.
Exchanged(terms, i, j) ==
    [k \in DOMAIN terms |-> IF k = i THEN terms[j] ELSE IF k = j THEN terms[i] ELSE terms[k]]
Repeated(terms, i) == Append(terms, terms[i])

PagesFound(terms) == ResultPageIds(search(search_index, Join(terms, <<Space>>)).o)

\* C17: the set of page identifiers in a search result is the same when two
\* terms of the query exchange places (hence under every permutation of the
\* terms, every query being asked in every index state) and when a term of
\* the query is repeated.
C17_PageSetIgnoresOrderAndRepeats ==
    (Returned("search") /\ ~VersionGate(search_index)) =>
        /\ \A i, j \in DOMAIN QueryTerms :
              PagesFound(Exchanged(QueryTerms, i, j)) = ResultPageIds(last.o)
        /\ \A i \in DOMAIN QueryTerms :
              PagesFound(Repeated(QueryTerms, i)) = ResultPageIds(last.o)

C17_Witness ==
    /\ Returned("search")
    /\ ~VersionGate(search_index)
    /\ QueryTerms = << <<"s">>, <<"a">> >>
    /\ ResultPageIds(last.o) = {<<"p", "2">>, <<"p", "3">>}
    /\ PagesFound(<< <<"a">>, <<"s">>, <<"a">> >>) = {<<"p", "2">>, <<"p", "3">>}

====
